---- MODULE Spec2Model ----
(***************************************************************************)
(* Model of the real-time messaging relay of Playsphere                    *)
(* (src/server/websocket.ts) over the persistence calls it uses            *)
(* (src/server/storage.ts).                                                *)
(*                                                                         *)
(* One action per event-loop turn: a socket connecting, a frame arriving   *)
(* on a socket (the synchronous prefix of the async 'message' handler up   *)
(* to its first await), the resolution of an awaited storage call          *)
(* together with the continuation that runs up to the next await, the      *)
(* rejection of an awaited storage call, and a socket closing.             *)
(*                                                                         *)
(* Encoding of JavaScript values: a missing / undefined / null numeric     *)
(* field is Absent (0, which is also falsy in the source's                 *)
(* `if (message.fromUserId)`), a missing boolean is FALSE.  The columns    *)
(* timestamp, isRead and readAt of a message row are constant in every     *)
(* insert the relay performs and are left out of the row.                  *)
(*                                                                         *)
(* The group routes of the HTTP API (src/unnamed/part_012) and the storage *)
(* functions behind them are modelled one SQL statement per action, each   *)
(* request being a call record that moves from statement to statement, so  *)
(* that concurrent requests interleave between statements as they do on    *)
(* the database.  Foreign keys (ON DELETE no action) reject the delete of   *)
(* a referenced row and the insert of a row naming a missing one.  The     *)
(* vote route (storage.toggleIdeaVote) is a transaction at read committed: *)
(* its writes become visible when it commits.                              *)
(*                                                                         *)
(* The client's useWebSocket hook (src/unnamed/part_022) is modelled by    *)
(* the sockets one hook instance creates, its refs and its timeout, one    *)
(* action per effect run, socket event, timeout expiry and cleanup.        *)
(***************************************************************************)
EXTENDS Integers, Sequences, FiniteSets, TLC

\* ---------------------------------------------------------------- bounds
\* Number of frames the sockets send in one behaviour.
MaxFrames == 2

\* Number of requests to the routes in one behaviour.
MaxCalls == 2

\* Number of WebSockets one hook instance creates in one behaviour.
MaxSockets == 3

\* ------------------------------------------------------------ vocabulary
Sockets  == {"s1", "s2"}
NoSocket == "none"
UserIds  == {1, 2}
Absent   == 0
GroupIds == {1}
IdeaIds  == {1}

\* Users that send requests to the group routes: the users above and one
\* more, who is in no group.
Requesters == UserIds \cup {3}

VARIABLES
    readyState,   \* socket -> "idle" | "open" | "closed"   (ws.readyState)
    userId,       \* socket -> the connection closure's `userId` (Absent = undefined)
    clients,      \* user id -> socket | NoSocket            (the `clients` Map)
    handlers,     \* in-flight invocations of the async message handler
    messages,     \* the messages table, in insertion order
    members,      \* group id -> user id -> number of group_members rows
    nframes,      \* number of frames received so far (numbers the frames)
    last,         \* observation: what the latest event-loop turn did
    firstUserId,  \* history: socket -> the first user id it was bound to
    evicted,      \* history: <<old socket, user, new socket>>: new replaced old's entry
    displaced,    \* history: <<socket, user>> replaced and not registered again since
    effectNo,     \* history: socket -> highest frame number with an effect so far
    groups,       \* group id -> owner's user id, Absent = no group_chats row
    calls,        \* in-flight requests to the group routes
    ncalls,       \* number of requests received so far (numbers the requests)
    lastCall,     \* observation: the request the latest turn answered
    addedAt,      \* history: group -> user -> {nframes when addGroupMember returned}
    removedAt,    \* history: group -> user -> {nframes when removeGroupMember returned true}
                  \*          (empty: it has not, or the row was deleted/inserted since)
    users,        \* the ids of the users table's rows
    ideas,        \* idea id -> [userId: its creator, votes: the counter column]
    ideaVotes,    \* idea id -> user id -> number of idea_votes rows
    hook          \* one useWebSocket instance in a browser: its refs and timer

vars == <<readyState, userId, clients, handlers, messages, members, nframes,
          last, firstUserId, evicted, displaced, effectNo,
          groups, calls, ncalls, lastCall, addedAt, removedAt,
          users, ideas, ideaVotes, hook>>

\* What the relay does not write.
routeVars == <<groups, calls, ncalls, lastCall, addedAt, removedAt,
               users, ideas, ideaVotes, hook>>

\* What the group routes do not write.
relayVars == <<readyState, userId, clients, handlers, messages, nframes,
               firstUserId, evicted, displaced, effectNo,
               users, ideas, ideaVotes, hook>>

\* ---------------------------------------------------- inbound frames
\* type WSMessage: the four frame shapes a client may send, each field
\* possibly missing.
Frame(type, from, to, g, c, ty) ==
    [type |-> type, fromUserId |-> from, toUserId |-> to, groupId |-> g,
     content |-> c, isTyping |-> ty]

\* {type: 'message', fromUserId, toUserId, content}, also without a
\* recipient and without a sender.
DirectChatMessage ==
    {Frame("message", from, to, Absent, "a", FALSE) :
        from \in UserIds, to \in UserIds}
    \cup {Frame("message", 1, 2, Absent, "b", FALSE),
          Frame("message", 1, Absent, Absent, "a", FALSE),
          Frame("message", Absent, 1, Absent, "a", FALSE)}

\* {type: 'groupMessage', fromUserId, groupId, content}, also without a
\* group id.
GroupChatMessage ==
    {Frame("groupMessage", from, Absent, g, "a", FALSE) :
        from \in UserIds, g \in GroupIds}
    \cup {Frame("groupMessage", 1, Absent, Absent, "a", FALSE)}

\* {type: 'typing', fromUserId, toUserId, isTyping}
TypingStatus ==
    {Frame("typing", from, 1, Absent, "", TRUE) : from \in UserIds}

\* {type: 'groupTyping', fromUserId, groupId, isTyping}
GroupTypingStatus ==
    {Frame("groupTyping", from, Absent, g, "", TRUE) :
        from \in UserIds, g \in GroupIds}

WSMessage ==
    DirectChatMessage \cup GroupChatMessage \cup TypingStatus \cup GroupTypingStatus

\* ---------------------------------------------------- outbound frames
\* No frame (the turn was a connection or a close).
NoFrame == [type |-> "", fromUserId |-> Absent, toUserId |-> Absent,
            groupId |-> Absent, content |-> "", isTyping |-> FALSE]

NoRow == [id |-> 0, fromUserId |-> Absent, toUserId |-> Absent,
          groupId |-> Absent, content |-> "", type |-> ""]

\* JSON.stringify(newMessage): the persisted row as it is, so the frame's
\* type field is the row's content-type tag.
DirectFrame(row) ==
    [type |-> row.type, id |-> row.id, fromUserId |-> row.fromUserId,
     toUserId |-> row.toUserId, groupId |-> row.groupId,
     content |-> row.content, isTyping |-> FALSE]

\* JSON.stringify({...newMessage, type: 'groupMessage'})
GroupFrame(row) ==
    [type |-> "groupMessage", id |-> row.id, fromUserId |-> row.fromUserId,
     toUserId |-> row.toUserId, groupId |-> row.groupId,
     content |-> row.content, isTyping |-> FALSE]

\* {type: 'error', message: 'You are not a member of this group'}
ErrorFrame ==
    [type |-> "error", id |-> 0, fromUserId |-> Absent, toUserId |-> Absent,
     groupId |-> Absent, content |-> "", isTyping |-> FALSE]

\* {type: 'typing', fromUserId, toUserId, isTyping}
TypingFrame(m) ==
    [type |-> "typing", id |-> 0, fromUserId |-> m.fromUserId,
     toUserId |-> m.toUserId, groupId |-> Absent,
     content |-> "", isTyping |-> m.isTyping]

\* {type: 'groupTyping', fromUserId, groupId, isTyping}
GroupTypingFrame(m) ==
    [type |-> "groupTyping", id |-> 0, fromUserId |-> m.fromUserId,
     toUserId |-> Absent, groupId |-> m.groupId,
     content |-> "", isTyping |-> m.isTyping]

\* ---------------------------------------------------- registry
\* Variant of BindClients that keeps an existing entry instead of replacing it.
BindClientsKeepFirst(cl, s, m) ==
    IF m.fromUserId # Absent /\ cl[m.fromUserId] = NoSocket
    THEN [cl EXCEPT ![m.fromUserId] = s] ELSE cl

\* if (message.fromUserId) { userId = message.fromUserId;
\*                           clients.set(message.fromUserId, ws); }
BindClients(cl, s, m) ==
    IF m.fromUserId # Absent THEN [cl EXCEPT ![m.fromUserId] = s] ELSE cl

BindUserId(uid, s, m) ==
    IF m.fromUserId # Absent THEN [uid EXCEPT ![s] = m.fromUserId] ELSE uid

\* clients.get(id) followed by the test `?.readyState === WebSocket.OPEN`:
\* the socket to push to, or NoSocket.
OpenSocketOf(cl, rs, id) ==
    IF id \in DOMAIN cl /\ cl[id] # NoSocket /\ rs[cl[id]] = "open"
    THEN cl[id] ELSE NoSocket

\* ws.on('close'): if (userId) clients.delete(userId)
CloseClients(cl, uid, s) ==
    IF uid[s] # Absent THEN [cl EXCEPT ![uid[s]] = NoSocket] ELSE cl

\* ---------------------------------------------------- persistence
\* storage.createMessage called by the direct branch.
DirectRow(msgs, m) ==
    [id |-> Len(msgs) + 1, fromUserId |-> m.fromUserId, toUserId |-> m.toUserId,
     groupId |-> Absent, content |-> m.content, type |-> "text"]

\* storage.createMessage called by the group branch.
GroupRow(msgs, m) ==
    [id |-> Len(msgs) + 1, fromUserId |-> m.fromUserId, toUserId |-> Absent,
     groupId |-> m.groupId, content |-> m.content, type |-> "text"]

\* messages.fromUserId is NOT NULL: an insert without a sender is rejected.
InsertAccepted(row) == row.fromUserId # Absent

\* Variant of isGroupMember that only checks that the group exists.
isGroupMemberAnyone(mem, g, u) == g \in DOMAIN mem /\ u \in DOMAIN mem[g]

\* storage.isGroupMember(groupId, userId)
isGroupMember(mem, g, u) ==
    g \in DOMAIN mem /\ u \in DOMAIN mem[g] /\ mem[g][u] > 0

\* storage.getGroupMembers(groupId): the users with a membership row.
getGroupMembers(mem, g) ==
    IF g \in DOMAIN mem THEN {u \in DOMAIN mem[g] : mem[g][u] > 0} ELSE {}

\* Variant of getMessages that matches one direction of the conversation only.
getMessagesOneWay(msgs, a, b) ==
    SelectSeq(msgs, LAMBDA r : r.fromUserId = b /\ r.toUserId = a)

\* storage.getMessages(fromUserId, toUserId): the history endpoint's query.
getMessages(msgs, a, b) ==
    SelectSeq(msgs, LAMBDA r :
        \/ (r.fromUserId = a /\ r.toUserId = b)
        \/ (r.fromUserId = b /\ r.toUserId = a))

\* ---------------------------------------------------- pushes
\* Variant of Route with the readyState test inverted.
RouteUnlessOpen(cl, rs, id, f) ==
    IF id \in DOMAIN cl /\ cl[id] # NoSocket /\ rs[cl[id]] # "open"
    THEN <<[to |-> cl[id], frame |-> f, rcpt |-> id]>>
    ELSE <<>>

\* recipientWs.send(...) / memberWs.send(...): a frame routed through the
\* registry entry of user `id`; it is sent only when that entry holds an
\* open socket.  rcpt records the user id the frame was routed for.
Route(cl, rs, id, f) ==
    IF OpenSocketOf(cl, rs, id) # NoSocket
    THEN <<[to |-> OpenSocketOf(cl, rs, id), frame |-> f, rcpt |-> id]>>
    ELSE <<>>

\* Variant of Reply that sends nothing back.
ReplyNothing(s, rs, f) == <<>>

\* ws.send(...): a frame sent back on the socket the inbound frame arrived
\* on (confirmation or error); it reaches the client only while the socket
\* is open.
Reply(s, rs, f) ==
    IF rs[s] = "open" THEN <<[to |-> s, frame |-> f, rcpt |-> Absent]>> ELSE <<>>

\* All enumerations of a finite set as a sequence: the order in which the
\* database returns the rows of a query without ORDER BY.
RECURSIVE Orders(_)
Orders(S) ==
    IF S = {} THEN {<<>>}
    ELSE UNION {{<<x>> \o t : t \in Orders(S \ {x})} : x \in S}

\* for (const member of groupMembers)
\*   if (member.id !== fromUserId) { memberWs = clients.get(member.id); ... }
RECURSIVE FanOut(_, _, _, _, _)
FanOut(order, from, cl, rs, f) ==
    IF order = <<>> THEN <<>>
    ELSE (IF Head(order) # from THEN Route(cl, rs, Head(order), f) ELSE <<>>)
         \o FanOut(Tail(order), from, cl, rs, f)

\* ---------------------------------------------------- observation
Turn(act, no, s, m, row, pushes) ==
    [act |-> act, no |-> no, sock |-> s, msg |-> m, row |-> row, pushes |-> pushes]

HasEffect(t) == t.row # NoRow \/ t.pushes # <<>>

\* A turn that neither inserted a row nor pushed a frame.
Quiet == Turn("Quiet", 0, NoSocket, NoFrame, NoRow, <<>>)

Observe(t) == IF HasEffect(t) THEN t ELSE Quiet

Max(a, b) == IF a >= b THEN a ELSE b

NoteEffect(eff, t) ==
    IF HasEffect(t) THEN [eff EXCEPT ![t.sock] = Max(@, t.no)] ELSE eff

\* ---------------------------------------------------- group tables
\* One group_members row for each user of S.
Rows(S) == [u \in UserIds |-> IF u \in S THEN 1 ELSE 0]

\* No request was answered by the latest turn.
NoCall == [no |-> 0, op |-> "", groupId |-> Absent, userId |-> Absent,
           currentUserId |-> Absent, status |-> 0]

\* HTTP status codes the group routes answer with.
StatusOk == 200

StatusCreated == 201

StatusBadRequest == 400

StatusForbidden == 403

StatusServerError == 500

\* Variant of isGroupOwner that finds no owner.
isGroupOwnerNobody(grp, g, u) == FALSE

\* storage.isGroupOwner(groupId, userId): a group_chats row with that id
\* whose owner column is the user.
isGroupOwner(grp, g, u) == g \in DOMAIN grp /\ u # Absent /\ grp[g] = u

\* Variant of MayRemove that lets every requester through.
MayRemoveAnyone(isOwner, memberId, currentUserId) == TRUE

\* Remove-member route: if (!isOwner && !isSelfRemoval) return 403.
MayRemove(isOwner, memberId, currentUserId) ==
    isOwner \/ memberId = currentUserId

\* Variant of InsertMember that inserts the row twice.
InsertMemberTwice(mem, g, u) == [mem EXCEPT ![g][u] = @ + 2]

\* db.insert(groupMembers).values(groupMember): one more row; the table has
\* no unique constraint on (groupId, userId).
InsertMember(mem, g, u) == [mem EXCEPT ![g][u] = @ + 1]

\* Variant of DeleteMember that deletes nothing.
DeleteMemberNothing(mem, g, u) == mem

\* db.delete(groupMembers).where(groupId = g and userId = u): every such row.
DeleteMember(mem, g, u) == [mem EXCEPT ![g][u] = 0]

\* A request in flight: the route it came in on, its parameters, and the
\* statement it is waiting for.
Call(no, op, g, u, by, pc) ==
    [no |-> no, op |-> op, groupId |-> g, userId |-> u, currentUserId |-> by,
     pc |-> pc]

\* res.status(status).json(...)
Answer(no, op, g, u, by, status) ==
    [no |-> no, op |-> op, groupId |-> g, userId |-> u, currentUserId |-> by,
     status |-> status]

AnswerTo(c, status) ==
    Answer(c.no, c.op, c.groupId, c.userId, c.currentUserId, status)

\* ---------------------------------------------------- foreign keys
\* A group_chats row with id g exists.
GroupExists(grp, g) == g \in DOMAIN grp /\ grp[g] # Absent

\* What a deleted messages row leaves behind: its id, a serial, is not given
\* to a later row.
DeletedRow(id) ==
    [id |-> id, fromUserId |-> Absent, toUserId |-> Absent, groupId |-> Absent,
     content |-> "", type |-> "deleted"]

\* db.delete(messages).where(eq(messages.groupId, g))
DeleteMessagesOf(msgs, g) ==
    [i \in DOMAIN msgs |->
        IF msgs[i].groupId = g THEN DeletedRow(msgs[i].id) ELSE msgs[i]]

\* db.delete(messages).where(or(eq(messages.fromUserId, id),
\* eq(messages.toUserId, id)))
DeleteMessagesWith(msgs, id) ==
    [i \in DOMAIN msgs |->
        IF msgs[i].fromUserId = id \/ msgs[i].toUserId = id
        THEN DeletedRow(msgs[i].id) ELSE msgs[i]]

\* The messages rows still in the table.
StoredRows(msgs) == {msgs[i] : i \in {j \in DOMAIN msgs : msgs[j].type # "deleted"}}

\* messages.fromUserId, toUserId and groupId reference users(id) and
\* group_chats(id): an insert naming a missing row is rejected.
ReferencesHold(row, usr, grp) ==
    /\ row.fromUserId \in usr
    /\ row.toUserId = Absent \/ row.toUserId \in usr
    /\ row.groupId = Absent \/ GroupExists(grp, row.groupId)

\* Variant of GroupReferenced for tables without foreign keys.
GroupReferencedNever(mem, msgs, g) == FALSE

\* group_members.groupId and messages.groupId reference group_chats(id), ON
\* DELETE no action: the rows that keep the group row from being deleted.
GroupReferenced(mem, msgs, g) ==
    \/ \E u \in DOMAIN mem[g] : mem[g][u] > 0
    \/ \E r \in StoredRows(msgs) : r.groupId = g

\* Variant of UserReferenced for tables without foreign keys.
UserReferencedNever(msgs, grp, mem, ids, votes, id) == FALSE

\* The columns that reference users(id), ON DELETE no action: the rows that
\* keep the user row from being deleted.
UserReferenced(msgs, grp, mem, ids, votes, id) ==
    \/ \E r \in StoredRows(msgs) : r.fromUserId = id \/ r.toUserId = id
    \/ \E g \in DOMAIN grp : grp[g] = id
    \/ \E g \in DOMAIN mem : id \in DOMAIN mem[g] /\ mem[g][id] > 0
    \/ \E i \in DOMAIN ids : ids[i].userId = id
    \/ \E i \in DOMAIN votes : id \in DOMAIN votes[i] /\ votes[i][id] > 0

\* db.delete(groupMembers).where(groupId = g)
DeleteMembersOf(mem, g) == [mem EXCEPT ![g] = [u \in DOMAIN mem[g] |-> 0]]

\* db.delete(groupMembers).where(userId = id)
DeleteMembershipsOf(mem, id) ==
    [g \in DOMAIN mem |-> [u \in DOMAIN mem[g] |-> IF u = id THEN 0 ELSE mem[g][u]]]

\* Variant of SetOwner that updates nothing.
SetOwnerNothing(grp, g, u) == grp

\* db.update(groups).set({ownerId: u}).where(id = g)
SetOwner(grp, g, u) == IF GroupExists(grp, g) THEN [grp EXCEPT ![g] = u] ELSE grp

\* ---------------------------------------------------- idea tables
\* An ideas row: its creator (user_id) and its counter (votes).
Idea(creator, votes) == [userId |-> creator, votes |-> votes]

\* An idea_votes table without rows.
NoVotes == [i \in IdeaIds |-> [u \in UserIds |-> 0]]

\* ---------------------------------------------------- the hook's refs
\* useWebSocket before its effect has run: no WebSocket has been created,
\* wsRef.current (an index into the sockets created, 0 = null) and
\* reconnectTimeoutRef.current (a pending timeout or none) are unset,
\* isConnected is false, messageQueueRef.current is empty (queued counts its
\* messages, sent those handed to a socket).
Unmounted ==
    [phase |-> "unmounted", sockets |-> <<>>, wsRef |-> 0, timeout |-> FALSE,
     isConnected |-> FALSE, queued |-> 0, sent |-> 0]

\* ---------------------------------------------------- initial state
Init ==
    /\ readyState = [s \in Sockets |-> "idle"]
    /\ userId = [s \in Sockets |-> Absent]
    /\ clients = [u \in UserIds |-> NoSocket]
    /\ handlers = {}
    /\ messages = <<>>
    /\ members \in [GroupIds -> {Rows({1}), Rows({1, 2})}]
    /\ nframes = 0
    /\ last = Quiet
    /\ firstUserId = [s \in Sockets |-> Absent]
    /\ evicted = {}
    /\ displaced = {}
    /\ effectNo = [s \in Sockets |-> 0]
    /\ groups = [g \in GroupIds |-> 1]
    /\ calls = {}
    /\ ncalls = 0
    /\ lastCall = NoCall
    /\ addedAt = [g \in GroupIds |-> [u \in UserIds |-> {}]]
    /\ removedAt = [g \in GroupIds |-> [u \in UserIds |-> {}]]
    /\ users = Requesters
    /\ ideas = [i \in IdeaIds |-> Idea(2, 0)]
    /\ ideaVotes = NoVotes
    /\ hook = Unmounted

\* ---------------------------------------------------- actions
\* wss.on('connection', (ws) => { let userId; ... })
Connect(s) ==
    /\ readyState[s] = "idle"
    /\ readyState' = [readyState EXCEPT ![s] = "open"]
    /\ userId' = [userId EXCEPT ![s] = Absent]
    /\ last' = Quiet
    /\ UNCHANGED <<clients, handlers, messages, members, nframes,
                   firstUserId, evicted, displaced, effectNo>>
    /\ UNCHANGED routeVars

\* ws.on('message'): parse, bind, then run the branch of the frame's type up
\* to its first await.  The typing branch has no await and completes here.
Message(s, m) ==
    /\ readyState[s] = "open"
    /\ LET no == nframes + 1
           cl == BindClients(clients, s, m)
           t  == Turn("Message", no, s, m, NoRow,
                      IF m.type = "typing"
                      THEN Route(cl, readyState, m.toUserId, TypingFrame(m))
                      ELSE <<>>)
       IN /\ nframes' = no
          /\ clients' = cl
          /\ userId' = BindUserId(userId, s, m)
          /\ handlers' =
               CASE m.type = "message" ->
                      handlers \cup {[no |-> no, sock |-> s, msg |-> m,
                                      pc |-> "createMessage", newMessage |-> NoRow]}
                 [] m.type \in {"groupMessage", "groupTyping"} ->
                      handlers \cup {[no |-> no, sock |-> s, msg |-> m,
                                      pc |-> "isGroupMember", newMessage |-> NoRow]}
                 [] OTHER -> handlers
          /\ last' = Observe(t)
          /\ effectNo' = NoteEffect(effectNo, t)
          /\ firstUserId' =
               IF firstUserId[s] = Absent /\ m.fromUserId # Absent
               THEN [firstUserId EXCEPT ![s] = m.fromUserId] ELSE firstUserId
          /\ evicted' =
               IF m.fromUserId # Absent /\ clients[m.fromUserId] \notin {NoSocket, s}
               THEN evicted \cup {<<clients[m.fromUserId], m.fromUserId, s>>}
               ELSE evicted
          /\ displaced' =
               IF m.fromUserId # Absent
               THEN (displaced \ {<<s, m.fromUserId>>}) \cup
                    (IF clients[m.fromUserId] \notin {NoSocket, s}
                     THEN {<<clients[m.fromUserId], m.fromUserId>>} ELSE {})
               ELSE displaced
    /\ UNCHANGED <<readyState, messages, members>>
    /\ UNCHANGED routeVars

\* Direct branch: `await storage.createMessage(...)` resolves; push to the
\* recipient if online, then the confirmation to the sender.
DirectCreated(h) ==
    /\ h \in handlers
    /\ h.pc = "createMessage"
    /\ h.msg.type = "message"
    /\ LET row == DirectRow(messages, h.msg)
           t   == Turn("DirectCreated", h.no, h.sock, h.msg, row,
                       Route(clients, readyState, h.msg.toUserId, DirectFrame(row))
                       \o Reply(h.sock, readyState, DirectFrame(row)))
       IN /\ InsertAccepted(row)
          /\ ReferencesHold(row, users, groups)
          /\ messages' = Append(messages, row)
          /\ last' = Observe(t)
          /\ effectNo' = NoteEffect(effectNo, t)
    /\ handlers' = handlers \ {h}
    /\ UNCHANGED <<readyState, userId, clients, members, nframes, firstUserId, evicted, displaced>>
    /\ UNCHANGED routeVars

\* Variant of MemberChecked that answers every refused frame, typing
\* included, with the error frame.
MemberCheckedAlwaysAnswers(h) ==
    /\ h \in handlers
    /\ h.pc = "isGroupMember"
    /\ LET isMember == isGroupMember(members, h.msg.groupId, h.msg.fromUserId)
           t == Turn("MemberChecked", h.no, h.sock, h.msg, NoRow,
                     IF ~isMember
                     THEN Reply(h.sock, readyState, ErrorFrame) ELSE <<>>)
       IN /\ handlers' =
               IF isMember
               THEN (handlers \ {h}) \cup
                      {[h EXCEPT !.pc = IF h.msg.type = "groupMessage"
                                        THEN "createMessage" ELSE "getGroupMembers"]}
               ELSE handlers \ {h}
          /\ last' = Observe(t)
          /\ effectNo' = NoteEffect(effectNo, t)
    /\ UNCHANGED <<readyState, userId, clients, messages, members, nframes,
                   firstUserId, evicted, displaced>>
    /\ UNCHANGED routeVars

\* Group branches: `await storage.isGroupMember(...)` resolves.  A non-member
\* gets the error frame (messages) or nothing (typing) and the handler
\* returns.
MemberChecked(h) ==
    /\ h \in handlers
    /\ h.pc = "isGroupMember"
    /\ LET isMember == isGroupMember(members, h.msg.groupId, h.msg.fromUserId)
           t == Turn("MemberChecked", h.no, h.sock, h.msg, NoRow,
                     IF ~isMember /\ h.msg.type = "groupMessage"
                     THEN Reply(h.sock, readyState, ErrorFrame) ELSE <<>>)
       IN /\ handlers' =
               IF isMember
               THEN (handlers \ {h}) \cup
                      {[h EXCEPT !.pc = IF h.msg.type = "groupMessage"
                                        THEN "createMessage" ELSE "getGroupMembers"]}
               ELSE handlers \ {h}
          /\ last' = Observe(t)
          /\ effectNo' = NoteEffect(effectNo, t)
    /\ UNCHANGED <<readyState, userId, clients, messages, members, nframes,
                   firstUserId, evicted, displaced>>
    /\ UNCHANGED routeVars

\* Group message branch: `await storage.createMessage(...)` resolves.
GroupCreated(h) ==
    /\ h \in handlers
    /\ h.pc = "createMessage"
    /\ h.msg.type = "groupMessage"
    /\ LET row == GroupRow(messages, h.msg)
           t   == Turn("GroupCreated", h.no, h.sock, h.msg, row, <<>>)
       IN /\ InsertAccepted(row)
          /\ ReferencesHold(row, users, groups)
          /\ messages' = Append(messages, row)
          /\ handlers' = (handlers \ {h}) \cup
                 {[h EXCEPT !.pc = "getGroupMembers", !.newMessage = row]}
          /\ last' = Observe(t)
          /\ effectNo' = NoteEffect(effectNo, t)
    /\ UNCHANGED <<readyState, userId, clients, members, nframes, firstUserId, evicted, displaced>>
    /\ UNCHANGED routeVars

\* Group branches: `await storage.getGroupMembers(...)` resolves; fan out to
\* the other members that are online, then (messages only) confirm to the
\* sender.
MembersFetched(h) ==
    /\ h \in handlers
    /\ h.pc = "getGroupMembers"
    /\ \E order \in Orders(getGroupMembers(members, h.msg.groupId)) :
         LET t == Turn("MembersFetched", h.no, h.sock, h.msg, NoRow,
                       IF h.msg.type = "groupMessage"
                       THEN FanOut(order, h.msg.fromUserId, clients, readyState,
                                   GroupFrame(h.newMessage))
                            \o Reply(h.sock, readyState, GroupFrame(h.newMessage))
                       ELSE FanOut(order, h.msg.fromUserId, clients, readyState,
                                   GroupTypingFrame(h.msg)))
         IN /\ last' = Observe(t)
            /\ effectNo' = NoteEffect(effectNo, t)
    /\ handlers' = handlers \ {h}
    /\ UNCHANGED <<readyState, userId, clients, messages, members, nframes,
                   firstUserId, evicted, displaced>>
    /\ UNCHANGED routeVars

\* Variant of StorageRejected in which the error tears the connection down.
StorageRejectedClosing(h) ==
    /\ h \in handlers
    /\ handlers' = handlers \ {h}
    /\ last' = Quiet
    /\ readyState' = [readyState EXCEPT ![h.sock] = "closed"]
    /\ clients' = CloseClients(clients, userId, h.sock)
    /\ UNCHANGED <<userId, messages, members, nframes,
                   firstUserId, evicted, displaced, effectNo>>
    /\ UNCHANGED routeVars

\* An awaited storage call rejects (database unreachable, constraint
\* violated): catch (err) { console.error(...) } and the handler ends.
StorageRejected(h) ==
    /\ h \in handlers
    /\ handlers' = handlers \ {h}
    /\ last' = Quiet
    /\ UNCHANGED <<readyState, userId, clients, messages, members, nframes,
                   firstUserId, evicted, displaced, effectNo>>
    /\ UNCHANGED routeVars

\* ws.on('close', () => { if (userId) clients.delete(userId) })
Close(s) ==
    /\ readyState[s] = "open"
    /\ readyState' = [readyState EXCEPT ![s] = "closed"]
    /\ clients' = CloseClients(clients, userId, s)
    /\ last' = Quiet
    /\ UNCHANGED <<userId, handlers, messages, members, nframes,
                   firstUserId, evicted, displaced, effectNo>>
    /\ UNCHANGED routeVars

\* ---------------------------------------------------- group routes
\* POST /api/groups -> storage.createGroup: the group_chats row is inserted
\* under the next free id; the owner's membership follows.
GroupInserted(g, owner) ==
    /\ groups[g] = Absent
    /\ ncalls' = ncalls + 1
    /\ groups' = [groups EXCEPT ![g] = owner]
    /\ calls' = calls \cup
          {Call(ncalls + 1, "createGroup", g, owner, owner, "isGroupMember")}
    /\ lastCall' = NoCall
    /\ last' = Quiet
    /\ UNCHANGED <<members, addedAt, removedAt>>
    /\ UNCHANGED relayVars

\* Variant of AddRequested without the ownership test.
AddRequestedUnchecked(g, u, by) ==
    /\ ncalls' = ncalls + 1
    /\ IF u = Absent \/ by = Absent
       THEN /\ lastCall' = Answer(ncalls + 1, "addMember", g, u, by, StatusBadRequest)
            /\ calls' = calls
       ELSE /\ lastCall' = NoCall
            /\ calls' = calls \cup
                  {Call(ncalls + 1, "addMember", g, u, by, "isGroupMember")}
    /\ last' = Quiet
    /\ UNCHANGED <<groups, members, addedAt, removedAt>>
    /\ UNCHANGED relayVars

\* POST /api/groups/:groupId/members: the ids are required, then
\* `await storage.isGroupOwner(groupId, currentUserId)` decides between 403
\* and storage.addGroupMember.
AddRequested(g, u, by) ==
    /\ ncalls' = ncalls + 1
    /\ IF u = Absent \/ by = Absent
       THEN /\ lastCall' = Answer(ncalls + 1, "addMember", g, u, by, StatusBadRequest)
            /\ calls' = calls
       ELSE IF ~isGroupOwner(groups, g, by)
       THEN /\ lastCall' = Answer(ncalls + 1, "addMember", g, u, by, StatusForbidden)
            /\ calls' = calls
       ELSE /\ lastCall' = NoCall
            /\ calls' = calls \cup
                  {Call(ncalls + 1, "addMember", g, u, by, "isGroupMember")}
    /\ last' = Quiet
    /\ UNCHANGED <<groups, members, addedAt, removedAt>>
    /\ UNCHANGED relayVars

\* storage.addGroupMember: `await this.isGroupMember(...)` resolves; a member
\* is not added again.
AddMembershipChecked(c) ==
    /\ c \in calls
    /\ c.op \in {"createGroup", "addMember"}
    /\ c.pc = "isGroupMember"
    /\ IF isGroupMember(members, c.groupId, c.userId)
       THEN /\ calls' = calls \ {c}
            /\ lastCall' = AnswerTo(c, IF c.op = "createGroup"
                                       THEN StatusCreated ELSE StatusOk)
            /\ addedAt' = [addedAt EXCEPT ![c.groupId][c.userId] = {nframes}]
       ELSE /\ calls' = (calls \ {c}) \cup {[c EXCEPT !.pc = "insert"]}
            /\ lastCall' = NoCall
            /\ addedAt' = addedAt
    /\ last' = Quiet
    /\ UNCHANGED <<groups, members, ncalls, removedAt>>
    /\ UNCHANGED relayVars

\* storage.addGroupMember: the insert is executed, or rejected when the
\* group_chats or users row it references is gone, and the route answers.
MemberInserted(c) ==
    /\ c \in calls
    /\ c.pc = "insert"
    /\ IF GroupExists(groups, c.groupId) /\ c.userId \in users
       THEN /\ members' = InsertMember(members, c.groupId, c.userId)
            /\ lastCall' = AnswerTo(c, IF c.op = "createGroup"
                                       THEN StatusCreated ELSE StatusOk)
            /\ addedAt' = [addedAt EXCEPT ![c.groupId][c.userId] = {nframes}]
            /\ removedAt' = [removedAt EXCEPT ![c.groupId][c.userId] = {}]
       ELSE /\ lastCall' = AnswerTo(c, IF c.op = "createGroup"
                                       THEN StatusBadRequest ELSE StatusServerError)
            /\ UNCHANGED <<members, addedAt, removedAt>>
    /\ calls' = calls \ {c}
    /\ last' = Quiet
    /\ UNCHANGED <<groups, ncalls>>
    /\ UNCHANGED relayVars

\* DELETE /api/groups/:groupId/members/:memberId: currentUserId is required,
\* then `await storage.isGroupOwner(groupId, currentUserId)` and the
\* self-removal test decide between 403 and storage.removeGroupMember.
RemoveRequested(g, u, by) ==
    /\ ncalls' = ncalls + 1
    /\ IF by = Absent
       THEN /\ lastCall' = Answer(ncalls + 1, "removeMember", g, u, by, StatusBadRequest)
            /\ calls' = calls
       ELSE IF ~MayRemove(isGroupOwner(groups, g, by), u, by)
       THEN /\ lastCall' = Answer(ncalls + 1, "removeMember", g, u, by, StatusForbidden)
            /\ calls' = calls
       ELSE /\ lastCall' = NoCall
            /\ calls' = calls \cup
                  {Call(ncalls + 1, "removeMember", g, u, by, "isGroupMember")}
    /\ last' = Quiet
    /\ UNCHANGED <<groups, members, addedAt, removedAt>>
    /\ UNCHANGED relayVars

\* storage.removeGroupMember: `await this.isGroupMember(...)` resolves; a
\* non-member makes it return false, which the route answers with 400.
RemoveMembershipChecked(c) ==
    /\ c \in calls
    /\ c.op = "removeMember"
    /\ c.pc = "isGroupMember"
    /\ IF isGroupMember(members, c.groupId, c.userId)
       THEN /\ calls' = (calls \ {c}) \cup {[c EXCEPT !.pc = "isGroupOwner"]}
            /\ lastCall' = NoCall
       ELSE /\ calls' = calls \ {c}
            /\ lastCall' = AnswerTo(c, StatusBadRequest)
    /\ last' = Quiet
    /\ UNCHANGED <<groups, members, ncalls, addedAt, removedAt>>
    /\ UNCHANGED relayVars

\* storage.removeGroupMember: `await this.isGroupOwner(groupId, userId)`
\* resolves; the owner makes it return false.
RemoveOwnerChecked(c) ==
    /\ c \in calls
    /\ c.op = "removeMember"
    /\ c.pc = "isGroupOwner"
    /\ IF isGroupOwner(groups, c.groupId, c.userId)
       THEN /\ calls' = calls \ {c}
            /\ lastCall' = AnswerTo(c, StatusBadRequest)
       ELSE /\ calls' = (calls \ {c}) \cup {[c EXCEPT !.pc = "delete"]}
            /\ lastCall' = NoCall
    /\ last' = Quiet
    /\ UNCHANGED <<groups, members, ncalls, addedAt, removedAt>>
    /\ UNCHANGED relayVars

\* storage.removeGroupMember: the delete is executed, it returns true and
\* the route answers.
MemberDeleted(c) ==
    /\ c \in calls
    /\ c.op = "removeMember"
    /\ c.pc = "delete"
    /\ members' = DeleteMember(members, c.groupId, c.userId)
    /\ calls' = calls \ {c}
    /\ lastCall' = AnswerTo(c, StatusOk)
    /\ removedAt' = [removedAt EXCEPT ![c.groupId][c.userId] = {nframes}]
    /\ addedAt' = [addedAt EXCEPT ![c.groupId][c.userId] = {}]
    /\ last' = Quiet
    /\ UNCHANGED <<groups, ncalls>>
    /\ UNCHANGED relayVars

\* ---------------------------------------------------- ownership routes
\* POST /api/groups/:groupId/transfer-ownership: both ids are required, then
\* storage.transferGroupOwnership is called.
TransferRequested(g, current, next) ==
    /\ ncalls' = ncalls + 1
    /\ IF current = Absent \/ next = Absent
       THEN /\ lastCall' = Answer(ncalls + 1, "transferOwnership", g, next, current,
                                  StatusBadRequest)
            /\ calls' = calls
       ELSE /\ lastCall' = NoCall
            /\ calls' = calls \cup
                  {Call(ncalls + 1, "transferOwnership", g, next, current, "isGroupOwner")}
    /\ last' = Quiet
    /\ UNCHANGED <<groups, members, addedAt, removedAt>>
    /\ UNCHANGED relayVars

\* storage.transferGroupOwnership: `await this.isGroupOwner(groupId,
\* currentOwnerId)` resolves; false is answered 403.
TransferOwnerChecked(c) ==
    /\ c \in calls
    /\ c.op = "transferOwnership"
    /\ c.pc = "isGroupOwner"
    /\ IF isGroupOwner(groups, c.groupId, c.currentUserId)
       THEN /\ calls' = (calls \ {c}) \cup {[c EXCEPT !.pc = "isGroupMember"]}
            /\ lastCall' = NoCall
       ELSE /\ calls' = calls \ {c}
            /\ lastCall' = AnswerTo(c, StatusForbidden)
    /\ last' = Quiet
    /\ UNCHANGED <<groups, members, ncalls, addedAt, removedAt>>
    /\ UNCHANGED relayVars

\* storage.transferGroupOwnership: `await this.isGroupMember(groupId,
\* newOwnerId)` resolves; false is answered 403.
TransferMemberChecked(c) ==
    /\ c \in calls
    /\ c.op = "transferOwnership"
    /\ c.pc = "isGroupMember"
    /\ IF isGroupMember(members, c.groupId, c.userId)
       THEN /\ calls' = (calls \ {c}) \cup {[c EXCEPT !.pc = "update"]}
            /\ lastCall' = NoCall
       ELSE /\ calls' = calls \ {c}
            /\ lastCall' = AnswerTo(c, StatusForbidden)
    /\ last' = Quiet
    /\ UNCHANGED <<groups, members, ncalls, addedAt, removedAt>>
    /\ UNCHANGED relayVars

\* storage.transferGroupOwnership: the update is executed (rejected when the
\* new owner's users row is gone), it returns true and the route answers.
OwnerUpdated(c) ==
    /\ c \in calls
    /\ c.op = "transferOwnership"
    /\ c.pc = "update"
    /\ IF GroupExists(groups, c.groupId) /\ c.userId \notin users
       THEN /\ groups' = groups
            /\ lastCall' = AnswerTo(c, StatusServerError)
       ELSE /\ groups' = SetOwner(groups, c.groupId, c.userId)
            /\ lastCall' = AnswerTo(c, StatusOk)
    /\ calls' = calls \ {c}
    /\ last' = Quiet
    /\ UNCHANGED <<members, ncalls, addedAt, removedAt>>
    /\ UNCHANGED relayVars

\* Variant of DeleteGroupOwnerChecked that lets every requester through.
DeleteGroupUnchecked(c) ==
    /\ c \in calls
    /\ c.op = "deleteGroup"
    /\ c.pc = "isGroupOwner"
    /\ calls' = (calls \ {c}) \cup {[c EXCEPT !.pc = "deleteMembers"]}
    /\ lastCall' = NoCall
    /\ last' = Quiet
    /\ UNCHANGED <<groups, members, ncalls, addedAt, removedAt>>
    /\ UNCHANGED relayVars

\* DELETE /api/groups/:groupId -> storage.deleteGroup: `await
\* this.isGroupOwner(groupId, userId)` resolves; false is answered 403.
DeleteGroupOwnerChecked(c) ==
    /\ c \in calls
    /\ c.op = "deleteGroup"
    /\ c.pc = "isGroupOwner"
    /\ IF isGroupOwner(groups, c.groupId, c.currentUserId)
       THEN /\ calls' = (calls \ {c}) \cup {[c EXCEPT !.pc = "deleteMembers"]}
            /\ lastCall' = NoCall
       ELSE /\ calls' = calls \ {c}
            /\ lastCall' = AnswerTo(c, StatusForbidden)
    /\ last' = Quiet
    /\ UNCHANGED <<groups, members, ncalls, addedAt, removedAt>>
    /\ UNCHANGED relayVars

\* DELETE /api/groups/:groupId: the user id of the body is required.
DeleteGroupRequested(g, by) ==
    /\ ncalls' = ncalls + 1
    /\ IF by = Absent
       THEN /\ lastCall' = Answer(ncalls + 1, "deleteGroup", g, Absent, by,
                                  StatusBadRequest)
            /\ calls' = calls
       ELSE /\ lastCall' = NoCall
            /\ calls' = calls \cup
                  {Call(ncalls + 1, "deleteGroup", g, Absent, by, "isGroupOwner")}
    /\ last' = Quiet
    /\ UNCHANGED <<groups, members, addedAt, removedAt>>
    /\ UNCHANGED relayVars

\* storage.deleteGroup: the group's membership rows are deleted.
GroupMembersDeleted(c) ==
    /\ c \in calls
    /\ c.op = "deleteGroup"
    /\ c.pc = "deleteMembers"
    /\ members' = DeleteMembersOf(members, c.groupId)
    /\ addedAt' = [addedAt EXCEPT ![c.groupId] = [u \in UserIds |-> {}]]
    /\ calls' = (calls \ {c}) \cup {[c EXCEPT !.pc = "deleteMessages"]}
    /\ lastCall' = NoCall
    /\ last' = Quiet
    /\ UNCHANGED <<groups, ncalls, removedAt, messages, users, ideas, ideaVotes, hook>>
    /\ UNCHANGED <<readyState, userId, clients, handlers, nframes,
                   firstUserId, evicted, displaced, effectNo>>

\* storage.deleteGroup: the group's messages are deleted.
GroupMessagesDeleted(c) ==
    /\ c \in calls
    /\ c.op = "deleteGroup"
    /\ c.pc = "deleteMessages"
    /\ messages' = DeleteMessagesOf(messages, c.groupId)
    /\ calls' = (calls \ {c}) \cup {[c EXCEPT !.pc = "deleteGroup"]}
    /\ lastCall' = NoCall
    /\ last' = Quiet
    /\ UNCHANGED <<groups, members, ncalls, addedAt, removedAt,
                   users, ideas, ideaVotes, hook>>
    /\ UNCHANGED <<readyState, userId, clients, handlers, nframes,
                   firstUserId, evicted, displaced, effectNo>>

\* storage.deleteGroup: the group row is deleted and it returns true, or the
\* delete is rejected because a row references the group and the route
\* answers 500.
GroupDeleted(c) ==
    /\ c \in calls
    /\ c.op = "deleteGroup"
    /\ c.pc = "deleteGroup"
    /\ IF GroupReferenced(members, messages, c.groupId)
       THEN /\ groups' = groups
            /\ lastCall' = AnswerTo(c, StatusServerError)
       ELSE /\ groups' = [groups EXCEPT ![c.groupId] = Absent]
            /\ lastCall' = AnswerTo(c, StatusOk)
    /\ calls' = calls \ {c}
    /\ last' = Quiet
    /\ UNCHANGED <<members, ncalls, addedAt, removedAt>>
    /\ UNCHANGED relayVars

\* A deleteUser call in flight: besides the fields of every request, the
\* rows of `groupsOwnedByUser` the loop has not finished yet.
UserCall(no, id, pc, owned) ==
    [no |-> no, op |-> "deleteUser", groupId |-> Absent, userId |-> id,
     currentUserId |-> Absent, pc |-> pc, groupsOwnedByUser |-> owned]

\* The row of groupsOwnedByUser the loop is at.
NextGroup(S) == CHOOSE g \in S : \A k \in S : g <= k

\* DELETE /api/admin/users/:id, past the isAdmin middleware:
\* storage.deleteUser(id) is called.
DeleteUserRequested(id) ==
    /\ ncalls' = ncalls + 1
    /\ calls' = calls \cup {UserCall(ncalls + 1, id, "deleteMessages", {})}
    /\ lastCall' = NoCall
    /\ last' = Quiet
    /\ UNCHANGED <<groups, members, addedAt, removedAt>>
    /\ UNCHANGED relayVars

\* storage.deleteUser: the messages sent by or to the user are deleted.
UserMessagesDeleted(c) ==
    /\ c \in calls
    /\ c.op = "deleteUser"
    /\ c.pc = "deleteMessages"
    /\ messages' = DeleteMessagesWith(messages, c.userId)
    /\ calls' = (calls \ {c}) \cup {[c EXCEPT !.pc = "selectGroups"]}
    /\ lastCall' = NoCall
    /\ last' = Quiet
    /\ UNCHANGED <<groups, members, ncalls, addedAt, removedAt,
                   users, ideas, ideaVotes, hook>>
    /\ UNCHANGED <<readyState, userId, clients, handlers, nframes,
                   firstUserId, evicted, displaced, effectNo>>

\* storage.deleteUser: the groups the user owns are selected.
OwnedGroupsSelected(c) ==
    /\ c \in calls
    /\ c.op = "deleteUser"
    /\ c.pc = "selectGroups"
    /\ LET owned == {g \in GroupIds : groups[g] = c.userId}
       IN calls' = (calls \ {c}) \cup
              {[c EXCEPT !.groupsOwnedByUser = owned,
                         !.pc = IF owned = {} THEN "deleteGroups"
                                ELSE "deleteGroupMessages"]}
    /\ lastCall' = NoCall
    /\ last' = Quiet
    /\ UNCHANGED <<groups, members, ncalls, addedAt, removedAt>>
    /\ UNCHANGED relayVars

\* storage.deleteUser, in the loop: the messages of an owned group are
\* deleted.
OwnedGroupMessagesDeleted(c) ==
    /\ c \in calls
    /\ c.op = "deleteUser"
    /\ c.pc = "deleteGroupMessages"
    /\ messages' = DeleteMessagesOf(messages, NextGroup(c.groupsOwnedByUser))
    /\ calls' = (calls \ {c}) \cup {[c EXCEPT !.pc = "deleteGroupMembers"]}
    /\ lastCall' = NoCall
    /\ last' = Quiet
    /\ UNCHANGED <<groups, members, ncalls, addedAt, removedAt,
                   users, ideas, ideaVotes, hook>>
    /\ UNCHANGED <<readyState, userId, clients, handlers, nframes,
                   firstUserId, evicted, displaced, effectNo>>

\* storage.deleteUser, in the loop: the membership rows of an owned group
\* are deleted; the loop goes on with the next group or ends.
OwnedGroupMembersDeleted(c) ==
    /\ c \in calls
    /\ c.op = "deleteUser"
    /\ c.pc = "deleteGroupMembers"
    /\ LET g    == NextGroup(c.groupsOwnedByUser)
           rest == c.groupsOwnedByUser \ {g}
       IN /\ members' = DeleteMembersOf(members, g)
          /\ addedAt' = [addedAt EXCEPT ![g] = [u \in UserIds |-> {}]]
          /\ calls' = (calls \ {c}) \cup
                 {[c EXCEPT !.groupsOwnedByUser = rest,
                            !.pc = IF rest = {} THEN "deleteGroups"
                                   ELSE "deleteGroupMessages"]}
    /\ lastCall' = NoCall
    /\ last' = Quiet
    /\ UNCHANGED <<groups, ncalls, removedAt>>
    /\ UNCHANGED relayVars

\* storage.deleteUser: the groups the user owns are deleted, or the delete is
\* rejected because a row references one of them, deleteUser throws and the
\* route answers 500.
OwnedGroupsDeleted(c) ==
    /\ c \in calls
    /\ c.op = "deleteUser"
    /\ c.pc = "deleteGroups"
    /\ LET owned == {g \in GroupIds : groups[g] = c.userId}
       IN IF \E g \in owned : GroupReferenced(members, messages, g)
          THEN /\ groups' = groups
               /\ calls' = calls \ {c}
               /\ lastCall' = AnswerTo(c, StatusServerError)
          ELSE /\ groups' = [g \in GroupIds |-> IF g \in owned THEN Absent ELSE groups[g]]
               /\ calls' = (calls \ {c}) \cup {[c EXCEPT !.pc = "deleteMemberships"]}
               /\ lastCall' = NoCall
    /\ last' = Quiet
    /\ UNCHANGED <<members, ncalls, addedAt, removedAt>>
    /\ UNCHANGED relayVars

\* storage.deleteUser: the user's membership rows are deleted.
UserMembershipsDeleted(c) ==
    /\ c \in calls
    /\ c.op = "deleteUser"
    /\ c.pc = "deleteMemberships"
    /\ members' = DeleteMembershipsOf(members, c.userId)
    /\ addedAt' = [g \in GroupIds |-> [u \in UserIds |->
                      IF u = c.userId THEN {} ELSE addedAt[g][u]]]
    /\ calls' = (calls \ {c}) \cup {[c EXCEPT !.pc = "deleteUser"]}
    /\ lastCall' = NoCall
    /\ last' = Quiet
    /\ UNCHANGED <<groups, ncalls, removedAt>>
    /\ UNCHANGED relayVars

\* storage.deleteUser: the users row is deleted and the route answers 200, or
\* the delete is rejected because a row references the user, deleteUser
\* throws and the route answers 500.
UserDeleted(c) ==
    /\ c \in calls
    /\ c.op = "deleteUser"
    /\ c.pc = "deleteUser"
    /\ IF UserReferenced(messages, groups, members, ideas, ideaVotes, c.userId)
       THEN /\ users' = users
            /\ lastCall' = AnswerTo(c, StatusServerError)
       ELSE /\ users' = users \ {c.userId}
            /\ lastCall' = AnswerTo(c, StatusOk)
    /\ calls' = calls \ {c}
    /\ last' = Quiet
    /\ UNCHANGED <<groups, members, ncalls, addedAt, removedAt,
                   messages, ideas, ideaVotes, hook>>
    /\ UNCHANGED <<readyState, userId, clients, handlers, nframes,
                   firstUserId, evicted, displaced, effectNo>>

\* ---------------------------------------------------- idea votes
\* The number of idea_votes rows of an idea.
RECURSIVE VoteRows(_, _)
VoteRows(rows, S) ==
    IF S = {} THEN 0
    ELSE LET u == CHOOSE x \in S : TRUE IN rows[u] + VoteRows(rows, S \ {u})

\* A toggleIdeaVote transaction in flight: what its select found
\* (existingVote), and what it has written and not committed yet: the number
\* of idea_votes rows it deleted, the number it inserted, and what it added
\* to the counter.
VoteCall(no, i, u, pc, existingVote, deleted, inserted, delta) ==
    [no |-> no, op |-> "toggleIdeaVote", groupId |-> Absent, userId |-> u,
     currentUserId |-> u, pc |-> pc, ideaId |-> i, existingVote |-> existingVote,
     deleted |-> deleted, inserted |-> inserted, delta |-> delta]

\* The toggleIdeaVote transactions in flight.
Transactions == {c \in calls : c.op = "toggleIdeaVote"}

\* POST /api/ideas/:id/vote by an authenticated user: storage.toggleIdeaVote
\* opens a transaction.
VoteRequested(i, u) ==
    /\ ncalls' = ncalls + 1
    /\ calls' = calls \cup {VoteCall(ncalls + 1, i, u, "select", FALSE, 0, 0, 0)}
    /\ lastCall' = NoCall
    /\ last' = Quiet
    /\ UNCHANGED <<groups, members, addedAt, removedAt>>
    /\ UNCHANGED relayVars

\* toggleIdeaVote: the select of the user's vote on the idea sees the rows
\* committed so far.
VoteSelected(c) ==
    /\ c \in calls
    /\ c.op = "toggleIdeaVote"
    /\ c.pc = "select"
    /\ calls' = (calls \ {c}) \cup
          {[c EXCEPT !.existingVote = ideaVotes[c.ideaId][c.userId] > 0,
                     !.pc = "write"]}
    /\ lastCall' = NoCall
    /\ last' = Quiet
    /\ UNCHANGED <<groups, members, ncalls, addedAt, removedAt>>
    /\ UNCHANGED relayVars

\* toggleIdeaVote: with a vote found, the delete of the user's votes on the
\* idea; it deletes the rows committed by now and waits for a transaction
\* that has deleted them and not committed. Without one, the insert of a
\* vote row. Neither is visible to other transactions before the commit.
VoteWritten(c) ==
    /\ c \in calls
    /\ c.op = "toggleIdeaVote"
    /\ c.pc = "write"
    /\ c.existingVote =>
          \A k \in Transactions \ {c} :
             (k.ideaId = c.ideaId /\ k.userId = c.userId) => k.deleted = 0
    /\ calls' = (calls \ {c}) \cup
          {[c EXCEPT !.deleted = IF c.existingVote
                                 THEN ideaVotes[c.ideaId][c.userId] ELSE 0,
                     !.inserted = IF c.existingVote THEN 0 ELSE 1,
                     !.pc = "update"]}
    /\ lastCall' = NoCall
    /\ last' = Quiet
    /\ UNCHANGED <<groups, members, ncalls, addedAt, removedAt>>
    /\ UNCHANGED relayVars

\* toggleIdeaVote: the update of the idea's counter, votes - 1 after a
\* delete and votes + 1 after an insert; it locks the ideas row until the
\* commit and waits for a transaction that holds the lock.
CounterUpdated(c) ==
    /\ c \in calls
    /\ c.op = "toggleIdeaVote"
    /\ c.pc = "update"
    /\ \A k \in Transactions \ {c} : k.ideaId = c.ideaId => k.pc # "commit"
    /\ calls' = (calls \ {c}) \cup
          {[c EXCEPT !.delta = IF c.existingVote THEN -1 ELSE 1, !.pc = "commit"]}
    /\ lastCall' = NoCall
    /\ last' = Quiet
    /\ UNCHANGED <<groups, members, ncalls, addedAt, removedAt>>
    /\ UNCHANGED relayVars

\* toggleIdeaVote: the idea is read back, the transaction commits and the
\* route answers with the idea.
VoteCommitted(c) ==
    /\ c \in calls
    /\ c.op = "toggleIdeaVote"
    /\ c.pc = "commit"
    /\ ideaVotes' = [ideaVotes EXCEPT ![c.ideaId][c.userId] = @ - c.deleted + c.inserted]
    /\ ideas' = [ideas EXCEPT ![c.ideaId].votes = @ + c.delta]
    /\ calls' = calls \ {c}
    /\ lastCall' = AnswerTo(c, StatusOk)
    /\ last' = Quiet
    /\ UNCHANGED <<groups, members, ncalls, addedAt, removedAt, messages, users, hook>>
    /\ UNCHANGED <<readyState, userId, clients, handlers, nframes,
                   firstUserId, evicted, displaced, effectNo>>

\* ---------------------------------------------------- the client's hook
\* What the hook, which runs in a browser, neither reads nor writes.
serverVars == <<readyState, userId, clients, handlers, messages, members, nframes,
                last, firstUserId, evicted, displaced, effectNo,
                groups, calls, ncalls, lastCall, addedAt, removedAt,
                users, ideas, ideaVotes>>

\* connectWebSocket(): `new WebSocket(wsUrl)` and `wsRef.current = ws`. Its
\* handlers stay attached to the socket for good.
connectWebSocket(hk) ==
    [hk EXCEPT !.sockets = Append(@, "connecting"), !.wsRef = Len(hk.sockets) + 1]

\* useEffect(() => { connectWebSocket(); ... }): the effect runs.
Mounted ==
    /\ hook.phase = "unmounted"
    /\ hook' = [connectWebSocket(hook) EXCEPT !.phase = "mounted"]
    /\ UNCHANGED serverVars

\* The handshake of socket k succeeds: ws.onopen sets isConnected and sends
\* the queued messages on that socket.
SocketOpened(k) ==
    /\ k \in DOMAIN hook.sockets
    /\ hook.sockets[k] = "connecting"
    /\ hook' = [hook EXCEPT !.sockets[k] = "open", !.isConnected = TRUE,
                            !.sent = @ + hook.queued, !.queued = 0]
    /\ UNCHANGED serverVars

\* Socket k reports an error: ws.onerror.
SocketFailed(k) ==
    /\ k \in DOMAIN hook.sockets
    /\ hook.sockets[k] \in {"connecting", "open"}
    /\ hook.isConnected
    /\ hook' = [hook EXCEPT !.isConnected = FALSE]
    /\ UNCHANGED serverVars

\* Socket k is closed, by a failed handshake, by the server, by the network
\* or after close(): ws.onclose clears the pending timeout and sets a new
\* one.
SocketClosed(k) ==
    /\ k \in DOMAIN hook.sockets
    /\ hook.sockets[k] # "closed"
    /\ hook' = [hook EXCEPT !.sockets[k] = "closed", !.isConnected = FALSE,
                            !.timeout = TRUE]
    /\ UNCHANGED serverVars

\* The timeout set by onclose expires: connectWebSocket().
ReconnectFired ==
    /\ hook.timeout
    /\ hook' = [connectWebSocket(hook) EXCEPT !.timeout = FALSE]
    /\ UNCHANGED serverVars

\* sendOrQueueMessage(message), called by the component: sent on the current
\* socket if it is open, queued otherwise.
SendOrQueue ==
    /\ hook.phase = "mounted"
    /\ hook' = IF hook.sockets[hook.wsRef] = "open"
               THEN [hook EXCEPT !.sent = @ + 1]
               ELSE [hook EXCEPT !.queued = @ + 1]
    /\ UNCHANGED serverVars

\* The effect's cleanup, when the component unmounts: close() on the current
\* socket if it is open, which starts the closing handshake, and
\* clearTimeout on the pending timeout.
Cleanup ==
    /\ hook.phase = "mounted"
    /\ hook' = [hook EXCEPT !.phase = "cleaned",
                            !.sockets = [k \in DOMAIN hook.sockets |->
                                IF k = hook.wsRef /\ hook.sockets[k] = "open"
                                THEN "closing" ELSE hook.sockets[k]],
                            !.timeout = FALSE]
    /\ UNCHANGED serverVars

\* ---------------------------------------------------- specifications
Next ==
    \/ \E s \in Sockets : Connect(s)
    \/ \E s \in Sockets, m \in WSMessage : nframes < MaxFrames /\ Message(s, m)
    \/ \E h \in handlers : DirectCreated(h)
    \/ \E h \in handlers : MemberChecked(h)
    \/ \E h \in handlers : GroupCreated(h)
    \/ \E h \in handlers : MembersFetched(h)
    \/ \E h \in handlers : StorageRejected(h)
    \/ \E s \in Sockets : Close(s)

Spec == Init /\ [][Next]_vars

\* The reconnect scenario: both sockets speak for user 1 (typing and direct
\* frames from 1 to 1) or for user 2 writing to the group that user 1 is a
\* member of, one frame more than in Spec.
TakeoverFrames ==
    {Frame("typing", 1, 1, Absent, "", TRUE),
     Frame("message", 1, 1, Absent, "a", FALSE),
     Frame("groupMessage", 2, Absent, 1, "a", FALSE)}

NextTakeover ==
    \/ \E s \in Sockets : Connect(s)
    \/ \E s \in Sockets, m \in TakeoverFrames : nframes < MaxFrames + 1 /\ Message(s, m)
    \/ \E h \in handlers : DirectCreated(h)
    \/ \E h \in handlers : MemberChecked(h)
    \/ \E h \in handlers : GroupCreated(h)
    \/ \E h \in handlers : MembersFetched(h)
    \/ \E h \in handlers : StorageRejected(h)
    \/ \E s \in Sockets : Close(s)

SpecTakeover == Init /\ [][NextTakeover]_vars

\* The failing-database scenario: user 1 sends well-formed message frames
\* (direct to user 2, and to the group it is a member of), so that a frame
\* leaves no row only if one of its storage calls was rejected.
RejectedFrames ==
    {Frame("message", 1, 2, Absent, "a", FALSE),
     Frame("groupMessage", 1, Absent, 1, "a", FALSE)}

NextRejected ==
    \/ \E s \in Sockets : Connect(s)
    \/ \E s \in Sockets, m \in RejectedFrames : nframes < MaxFrames /\ Message(s, m)
    \/ \E h \in handlers : DirectCreated(h)
    \/ \E h \in handlers : MemberChecked(h)
    \/ \E h \in handlers : GroupCreated(h)
    \/ \E h \in handlers : MembersFetched(h)
    \/ \E h \in handlers : StorageRejected(h)
    \/ \E s \in Sockets : Close(s)

SpecRejected == Init /\ [][NextRejected]_vars

\* The group typing scenario: only group typing frames are sent and every
\* storage call resolves, so that a frame that leaves no trace was dropped
\* by the relay itself.
NextGroupTyping ==
    \/ \E s \in Sockets : Connect(s)
    \/ \E s \in Sockets, m \in GroupTypingStatus : nframes < MaxFrames /\ Message(s, m)
    \/ \E h \in handlers : MemberChecked(h)
    \/ \E h \in handlers : MembersFetched(h)
    \/ \E s \in Sockets : Close(s)

SpecGroupTyping == Init /\ [][NextGroupTyping]_vars

\* The group tables as a database may hold them when the server starts: the
\* group does not exist yet, or it exists with its owner, user 1, as a member
\* and user 2 a member or not.
InitGroups ==
    /\ readyState = [s \in Sockets |-> "idle"]
    /\ userId = [s \in Sockets |-> Absent]
    /\ clients = [u \in UserIds |-> NoSocket]
    /\ handlers = {}
    /\ messages = <<>>
    /\ nframes = 0
    /\ last = Quiet
    /\ firstUserId = [s \in Sockets |-> Absent]
    /\ evicted = {}
    /\ displaced = {}
    /\ effectNo = [s \in Sockets |-> 0]
    /\ groups \in [GroupIds -> {Absent, 1}]
    /\ members \in [GroupIds -> {Rows({}), Rows({1}), Rows({1, 2})}]
    /\ \A g \in GroupIds : (groups[g] = Absent) = (members[g] = Rows({}))
    /\ calls = {}
    /\ ncalls = 0
    /\ lastCall = NoCall
    /\ addedAt = [g \in GroupIds |-> [u \in UserIds |-> {}]]
    /\ removedAt = [g \in GroupIds |-> [u \in UserIds |-> {}]]
    /\ users = Requesters
    /\ ideas = [i \in IdeaIds |-> Idea(2, 0)]
    /\ ideaVotes = NoVotes
    /\ hook = Unmounted

\* The group routes on their own: concurrent requests interleaving between
\* their statements.
NextGroups ==
    \/ \E g \in GroupIds, owner \in UserIds :
          ncalls < MaxCalls /\ GroupInserted(g, owner)
    \/ \E g \in GroupIds, u \in UserIds \cup {Absent}, by \in Requesters \cup {Absent} :
          ncalls < MaxCalls /\ AddRequested(g, u, by)
    \/ \E c \in calls : AddMembershipChecked(c)
    \/ \E c \in calls : MemberInserted(c)
    \/ \E g \in GroupIds, u \in UserIds, by \in Requesters \cup {Absent} :
          ncalls < MaxCalls /\ RemoveRequested(g, u, by)
    \/ \E c \in calls : RemoveMembershipChecked(c)
    \/ \E c \in calls : RemoveOwnerChecked(c)
    \/ \E c \in calls : MemberDeleted(c)

SpecGroups == InitGroups /\ [][NextGroups]_vars

\* The relay while the membership of user 2 changes: member 1 (the owner)
\* sends group messages and group typing frames on socket s1, user 2 sends
\* group typing frames on socket s2 (which registers it), every storage call
\* of the relay resolves, and the owner adds or removes user 2, or user 2
\* leaves, through the group routes, one request at a time.
MembershipFrames ==
    {Frame("groupMessage", 1, Absent, 1, "a", FALSE),
     Frame("groupTyping", 1, Absent, 1, "", TRUE),
     Frame("groupTyping", 2, Absent, 1, "", TRUE)}

NextMembership ==
    \/ \E s \in Sockets : Connect(s)
    \/ \E s \in Sockets, m \in MembershipFrames :
          nframes < MaxFrames /\ (m.fromUserId = 1) = (s = "s1") /\ Message(s, m)
    \/ \E h \in handlers : MemberChecked(h)
    \/ \E h \in handlers : GroupCreated(h)
    \/ \E h \in handlers : MembersFetched(h)
    \/ \E s \in Sockets : Close(s)
    \/ \E g \in GroupIds : ncalls < MaxCalls /\ calls = {} /\ AddRequested(g, 2, 1)
    \/ \E c \in calls : AddMembershipChecked(c)
    \/ \E c \in calls : MemberInserted(c)
    \/ \E g \in GroupIds, by \in UserIds : ncalls < MaxCalls /\ calls = {} /\ RemoveRequested(g, 2, by)
    \/ \E c \in calls : RemoveMembershipChecked(c)
    \/ \E c \in calls : RemoveOwnerChecked(c)
    \/ \E c \in calls : MemberDeleted(c)

SpecMembership == Init /\ [][NextMembership]_vars

\* The tables as a database may hold them when a request arrives: the group
\* of user 1 with user 2 a member or not, a direct message and two group
\* messages, and an idea of user 2.
StoredMessages ==
    <<[id |-> 1, fromUserId |-> 1, toUserId |-> 2, groupId |-> Absent,
       content |-> "a", type |-> "text"],
      [id |-> 2, fromUserId |-> 1, toUserId |-> Absent, groupId |-> 1,
       content |-> "a", type |-> "text"],
      [id |-> 3, fromUserId |-> 2, toUserId |-> Absent, groupId |-> 1,
       content |-> "a", type |-> "text"]>>

InitOwnership ==
    /\ readyState = [s \in Sockets |-> "idle"]
    /\ userId = [s \in Sockets |-> Absent]
    /\ clients = [u \in UserIds |-> NoSocket]
    /\ handlers = {}
    /\ messages = StoredMessages
    /\ members \in [GroupIds -> {Rows({1}), Rows({1, 2})}]
    /\ nframes = 0
    /\ last = Quiet
    /\ firstUserId = [s \in Sockets |-> Absent]
    /\ evicted = {}
    /\ displaced = {}
    /\ effectNo = [s \in Sockets |-> 0]
    /\ groups = [g \in GroupIds |-> 1]
    /\ calls = {}
    /\ ncalls = 0
    /\ lastCall = NoCall
    /\ addedAt = [g \in GroupIds |-> [u \in UserIds |-> {}]]
    /\ removedAt = [g \in GroupIds |-> [u \in UserIds |-> {}]]
    /\ users = Requesters
    /\ ideas = [i \in IdeaIds |-> Idea(2, 0)]
    /\ ideaVotes = NoVotes
    /\ hook = Unmounted

\* The routes that change who owns and who is in a group, and the deletion
\* of groups and users: concurrent requests interleaving between their
\* statements.
NextOwnership ==
    \/ \E g \in GroupIds, u \in UserIds, by \in UserIds :
          ncalls < MaxCalls /\ AddRequested(g, u, by)
    \/ \E c \in calls : AddMembershipChecked(c)
    \/ \E c \in calls : MemberInserted(c)
    \/ \E g \in GroupIds, u \in UserIds, by \in UserIds :
          ncalls < MaxCalls /\ RemoveRequested(g, u, by)
    \/ \E c \in calls : RemoveMembershipChecked(c)
    \/ \E c \in calls : RemoveOwnerChecked(c)
    \/ \E c \in calls : MemberDeleted(c)
    \/ \E g \in GroupIds, current \in UserIds \cup {Absent}, next \in Requesters \cup {Absent} :
          ncalls < MaxCalls /\ TransferRequested(g, current, next)
    \/ \E c \in calls : TransferOwnerChecked(c)
    \/ \E c \in calls : TransferMemberChecked(c)
    \/ \E c \in calls : OwnerUpdated(c)
    \/ \E g \in GroupIds, by \in Requesters \cup {Absent} :
          ncalls < MaxCalls /\ DeleteGroupRequested(g, by)
    \/ \E c \in calls : DeleteGroupOwnerChecked(c)
    \/ \E c \in calls : GroupMembersDeleted(c)
    \/ \E c \in calls : GroupMessagesDeleted(c)
    \/ \E c \in calls : GroupDeleted(c)
    \/ \E id \in Requesters : ncalls < MaxCalls /\ DeleteUserRequested(id)
    \/ \E c \in calls : UserMessagesDeleted(c)
    \/ \E c \in calls : OwnedGroupsSelected(c)
    \/ \E c \in calls : OwnedGroupMessagesDeleted(c)
    \/ \E c \in calls : OwnedGroupMembersDeleted(c)
    \/ \E c \in calls : OwnedGroupsDeleted(c)
    \/ \E c \in calls : UserMembershipsDeleted(c)
    \/ \E c \in calls : UserDeleted(c)

SpecOwnership == InitOwnership /\ [][NextOwnership]_vars

\* The relay while a group loses a member or is deleted: users 1 and 2 send
\* group messages on their own sockets, and meanwhile user 2 is removed or
\* leaves, or the owner deletes the group, through the group routes, one
\* request at a time.
LeavingFrames ==
    {Frame("groupMessage", u, Absent, 1, "a", FALSE) : u \in UserIds}

NextLeaving ==
    \/ \E s \in Sockets : Connect(s)
    \/ \E s \in Sockets, m \in LeavingFrames :
          nframes < MaxFrames /\ (m.fromUserId = 1) = (s = "s1") /\ Message(s, m)
    \/ \E h \in handlers : MemberChecked(h)
    \/ \E h \in handlers : GroupCreated(h)
    \/ \E h \in handlers : MembersFetched(h)
    \/ \E h \in handlers : StorageRejected(h)
    \/ \E g \in GroupIds, by \in UserIds : ncalls < MaxCalls /\ calls = {} /\ RemoveRequested(g, 2, by)
    \/ \E c \in calls : RemoveMembershipChecked(c)
    \/ \E c \in calls : RemoveOwnerChecked(c)
    \/ \E c \in calls : MemberDeleted(c)
    \/ \E g \in GroupIds : ncalls < MaxCalls /\ calls = {} /\ DeleteGroupRequested(g, 1)
    \/ \E c \in calls : DeleteGroupOwnerChecked(c)
    \/ \E c \in calls : GroupMembersDeleted(c)
    \/ \E c \in calls : GroupMessagesDeleted(c)
    \/ \E c \in calls : GroupDeleted(c)

SpecLeaving == Init /\ [][NextLeaving]_vars

\* The idea tables as a database may hold them when a request arrives: each
\* user has voted for the idea or has not, and the counter is the number of
\* vote rows.
InitVotes ==
    /\ readyState = [s \in Sockets |-> "idle"]
    /\ userId = [s \in Sockets |-> Absent]
    /\ clients = [u \in UserIds |-> NoSocket]
    /\ handlers = {}
    /\ messages = <<>>
    /\ members \in [GroupIds -> {Rows({1})}]
    /\ nframes = 0
    /\ last = Quiet
    /\ firstUserId = [s \in Sockets |-> Absent]
    /\ evicted = {}
    /\ displaced = {}
    /\ effectNo = [s \in Sockets |-> 0]
    /\ groups = [g \in GroupIds |-> 1]
    /\ calls = {}
    /\ ncalls = 0
    /\ lastCall = NoCall
    /\ addedAt = [g \in GroupIds |-> [u \in UserIds |-> {}]]
    /\ removedAt = [g \in GroupIds |-> [u \in UserIds |-> {}]]
    /\ users = Requesters
    /\ ideaVotes \in [IdeaIds -> [UserIds -> {0, 1}]]
    /\ ideas = [i \in IdeaIds |-> Idea(2, VoteRows(ideaVotes[i], UserIds))]
    /\ hook = Unmounted

\* The vote route: concurrent requests, each a transaction at the
\* database's default isolation level, read committed.
NextVotes ==
    \/ \E i \in IdeaIds, u \in UserIds : ncalls < MaxCalls /\ VoteRequested(i, u)
    \/ \E c \in calls : VoteSelected(c)
    \/ \E c \in calls : VoteWritten(c)
    \/ \E c \in calls : CounterUpdated(c)
    \/ \E c \in calls : VoteCommitted(c)

SpecVotes == InitVotes /\ [][NextVotes]_vars

\* One useWebSocket instance from before its effect runs until after its
\* cleanup, with the sockets it creates opening and closing.
NextHook ==
    \/ Mounted
    \/ \E k \in 1..MaxSockets : SocketOpened(k)
    \/ \E k \in 1..MaxSockets : SocketFailed(k)
    \/ \E k \in 1..MaxSockets : SocketClosed(k)
    \/ Len(hook.sockets) < MaxSockets /\ ReconnectFired
    \/ hook.sent + hook.queued < MaxFrames /\ SendOrQueue
    \/ Cleanup

SpecHook == Init /\ [][NextHook]_vars

\* ---------------------------------------------------- properties
Pushes == {last.pushes[i] : i \in DOMAIN last.pushes}

PushesTo(s) == {i \in DOMAIN last.pushes : last.pushes[i].to = s}

\* The socket the registry holds for user id, when it is open.
Online(id) == id \in UserIds /\ clients[id] # NoSocket /\ readyState[clients[id]] = "open"

\* The users with at least one membership row in group g.
Members(g) == {u \in UserIds : members[g][u] > 0}

C2_OfflineRecipientStoredOnly ==
    (/\ last.act = "DirectCreated"
     /\ last.msg.toUserId \in UserIds
     /\ clients[last.msg.toUserId] = NoSocket) =>
        /\ \A p \in Pushes : p.to = last.sock
        /\ \E i \in DOMAIN getMessages(messages, last.msg.fromUserId, last.msg.toUserId) :
              LET r == getMessages(messages, last.msg.fromUserId, last.msg.toUserId)[i]
              IN r.id = Len(messages) /\ r.content = last.msg.content

C2_Witness ==
    /\ last.act = "DirectCreated"
    /\ last.msg.toUserId \in UserIds
    /\ last.msg.toUserId # last.msg.fromUserId
    /\ clients[last.msg.toUserId] = NoSocket
    /\ Len(last.pushes) = 1
    /\ last.pushes[1].to = last.sock

\* C3 (as claimed): when the fan-out of a group message sent by a member has
\* run with the sender's socket open, every other member whose registry
\* entry holds an open socket has received exactly one "groupMessage" frame
\* on it, every frame went to the sender's socket or to such a member's
\* socket, the sender's socket received exactly one frame, and at most as
\* many frames were pushed as the group has members.
C3_GroupFanOutOncePerMember ==
    (/\ last.act = "MembersFetched"
     /\ last.msg.type = "groupMessage"
     /\ readyState[last.sock] = "open") =>
        LET others == Members(last.msg.groupId) \ {last.msg.fromUserId}
        IN /\ \A u \in others : Online(u) =>
                 /\ Cardinality(PushesTo(clients[u])) = 1
                 /\ \A i \in PushesTo(clients[u]) :
                        last.pushes[i].frame.type = "groupMessage"
           /\ \A p \in Pushes :
                 p.to = last.sock \/ \E u \in others : Online(u) /\ p.to = clients[u]
           /\ Cardinality(PushesTo(last.sock)) = 1
           /\ Len(last.pushes) <= Cardinality(Members(last.msg.groupId))

\* C4: when the membership check of a group message finds that the sender is
\* not a member while the sender's socket is open, the handler ends there,
\* no row is inserted, and exactly one frame is pushed: an "error" frame to
\* the sender's socket.
C4_NonMemberGetsOnlyError ==
    [][\A h \in handlers :
          (/\ MemberChecked(h)
           /\ h.msg.type = "groupMessage"
           /\ (h.msg.groupId \notin GroupIds
                  \/ h.msg.fromUserId \notin Members(h.msg.groupId))
           /\ readyState[h.sock] = "open") =>
              /\ messages' = messages
              /\ \A k \in handlers' : k.no # h.no
              /\ last'.pushes = <<[to |-> h.sock, frame |-> ErrorFrame, rcpt |-> Absent]>>
      ]_vars

C4_Witness ==
    /\ last.act = "MemberChecked"
    /\ last.msg.type = "groupMessage"
    /\ last.msg.groupId \in GroupIds
    /\ last.msg.fromUserId \notin Members(last.msg.groupId)
    /\ Len(last.pushes) = 1
    /\ last.pushes[1].to = last.sock
    /\ last.pushes[1].frame.type = "error"
    /\ \E u \in UserIds : Online(u) /\ clients[u] # last.sock

\* C5 (as claimed): a socket's close handler leaves every registry entry
\* that points at another socket as it is.
C5_CloseKeepsNewerRegistration ==
    [][\A s \in Sockets : Close(s) =>
          \A u \in UserIds :
              (clients[u] # NoSocket /\ clients[u] # s) => clients'[u] = clients[u]
      ]_vars

C7_NoEntryForClosedSocket ==
    /\ clients \in [UserIds -> Sockets \cup {NoSocket}]
    /\ \A s \in Sockets : readyState[s] = "closed" =>
          \A u \in UserIds : clients[u] # s

\* C8 (as claimed): the sender id of every row persisted and of every
\* message frame pushed for a frame from a socket is the user id that socket
\* was bound to by the first frame it sent with a fromUserId.
C8_SenderIsBoundUser ==
    /\ last.row # NoRow => last.row.fromUserId = firstUserId[last.sock]
    /\ \A p \in Pushes :
          p.frame.type \in {"text", "groupMessage"} =>
              p.frame.fromUserId = firstUserId[last.sock]

\* C9 (as claimed): every persisted message row has exactly one of toUserId
\* and groupId set.
C9_ExactlyOneTarget ==
    \A i \in DOMAIN messages :
        (messages[i].toUserId # Absent) # (messages[i].groupId # Absent)

\* C10 (as claimed): on one socket no insert or push caused by a frame
\* happens after an insert or push caused by a frame that arrived later on
\* that socket.
C10_EffectsInArrivalOrder ==
    [][(HasEffect(last') /\ last' # last) => effectNo[last'.sock] <= last'.no]_vars

\* C11: when a direct message has been persisted while the sender's socket
\* is open, the last frame pushed in that turn goes to the sender's socket
\* and is the persisted row (its id is the new row's id, its content the
\* sent content); a frame pushed to the recipient in the same turn is the
\* identical object.  This holds whether or not the recipient is registered.
C11_SenderGetsPersistedRow ==
    (last.act = "DirectCreated" /\ readyState[last.sock] = "open") =>
        /\ last.pushes # <<>>
        /\ LET p == last.pushes[Len(last.pushes)]
           IN /\ p.to = last.sock
              /\ p.rcpt = Absent
              /\ last.row = messages[Len(messages)]
              /\ p.frame = DirectFrame(last.row)
              /\ p.frame.id = Len(messages)
              /\ p.frame.content = last.msg.content
              /\ \A q \in Pushes : q.frame = p.frame

C11_Witness ==
    /\ last.act = "DirectCreated"
    /\ readyState[last.sock] = "open"
    /\ Len(last.pushes) = 2
    /\ last.pushes[1].to # last.sock
    /\ last.pushes[1].rcpt = last.msg.toUserId
    /\ last.pushes[2].to = last.sock
    /\ last.pushes[2].frame = last.pushes[1].frame
    /\ last.pushes[2].frame.id = Len(messages)

\* C12: when the createMessage call of a direct or group message frame is
\* rejected, that turn pushes no frame to any socket and inserts no row, the
\* sending socket keeps its readyState, its bound user id and its registry
\* entries, and only the failed handler ends, so that the socket's next
\* frame is handled as any other.
C12_RejectedInsertIsSilent ==
    [][\A h \in handlers :
          (StorageRejected(h) /\ h.pc = "createMessage") =>
              /\ last'.pushes = <<>>
              /\ messages' = messages
              /\ readyState' = readyState
              /\ clients' = clients
              /\ userId' = userId
              /\ handlers' = handlers \ {h}
      ]_vars

\* The first frame of a socket was rejected (it left no row and its handler
\* is gone), the socket is still open and registered, and its second frame
\* has been persisted and confirmed to it.
C12_Witness ==
    /\ nframes = 2
    /\ handlers = {}
    /\ Len(messages) = 1
    /\ last.act = "DirectCreated"
    /\ last.no = 2
    /\ \E o \in Sockets : o # last.sock /\ firstUserId[o] = Absent
    /\ readyState[last.sock] = "open"
    /\ clients[1] = last.sock
    /\ \E p \in Pushes : p.to = last.sock /\ p.frame.id = 1

\* The fields the frame's interface requires are all present.
WellFormed(m) ==
    /\ m.fromUserId # Absent
    /\ (m.type \in {"message", "typing"} => m.toUserId # Absent)
    /\ (m.type \in {"groupMessage", "groupTyping"} => m.groupId # Absent)

\* C13 (as claimed): a frame that lacks a field required for its type
\* produces no response: no turn run for it inserts a row or pushes a frame
\* to any socket.
C13_MalformedFrameHasNoEffect ==
    HasEffect(last) => WellFormed(last.msg)

\* C14: the fan-out of a group message or group typing frame pushes nothing
\* for a user whose removal from the group completed before the frame
\* arrived (and who was not added again), and the fan-out of a group message
\* pushes the message to every other user whose addition completed before
\* the frame arrived (and who was not removed again) and whose registry
\* entry holds an open socket.
C14_MembershipReadFresh ==
    last.act = "MembersFetched" =>
        LET g == last.msg.groupId
        IN /\ \A p \in Pushes : p.rcpt # Absent =>
                 \A n \in removedAt[g][p.rcpt] : ~(n < last.no)
           /\ last.msg.type = "groupMessage" =>
                 \A u \in UserIds \ {last.msg.fromUserId} :
                     ((\E n \in addedAt[g][u] : n < last.no) /\ Online(u)) =>
                         \E p \in Pushes :
                             /\ p.rcpt = u
                             /\ p.to = clients[u]
                             /\ \E i \in DOMAIN messages :
                                    /\ p.frame = GroupFrame(messages[i])
                                    /\ messages[i].groupId = g
                                    /\ messages[i].content = last.msg.content

\* User 2 was removed before the owner's group message arrived; user 2 is
\* online on its own socket and only the sender's socket got a frame.
C14_Witness ==
    /\ last.act = "MembersFetched"
    /\ last.msg.type = "groupMessage"
    /\ \E n \in removedAt[last.msg.groupId][2] : n < last.no
    /\ Online(2)
    /\ clients[2] # last.sock
    /\ Len(last.pushes) = 1
    /\ last.pushes[1].to = last.sock

\* C15: when the membership check of a group typing frame finds that the
\* sender is not a member, the handler ends there: no frame of any type is
\* pushed to any socket (no error frame to the sender either) and no row is
\* inserted.
C15_NonMemberTypingDropped ==
    [][\A h \in handlers :
          (/\ MemberChecked(h)
           /\ h.msg.type = "groupTyping"
           /\ (h.msg.groupId \notin GroupIds
                  \/ h.msg.fromUserId \notin Members(h.msg.groupId))) =>
              /\ last'.pushes = <<>>
              /\ messages' = messages
              /\ \A k \in handlers' : k.no # h.no
      ]_vars

\* Both frames of the behaviour have been handled, user 2 (not a member) has
\* sent a group typing frame on its own open socket while member 1 is
\* online on the other socket, and no frame was ever pushed.
C15_Witness ==
    /\ Members(1) = {1}
    /\ nframes = 2
    /\ handlers = {}
    /\ Online(1) /\ Online(2)
    /\ clients[1] # clients[2]
    /\ userId[clients[1]] = 1 /\ firstUserId[clients[1]] = 1
    /\ userId[clients[2]] = 2 /\ firstUserId[clients[2]] = 2
    /\ effectNo = [s \in Sockets |-> 0]
    /\ messages = <<>>

\* C16 (as claimed): a direct typing frame inserts no row, is pushed at most
\* once, as a "typing" frame to the open socket registered for its
\* recipient at that moment, leaves nothing pending, and is not pushed to
\* the socket that sent it (the sender writing to another user).
C16_TypingNeverEchoed ==
    (last.act = "Message" /\ last.msg.type = "typing") =>
        /\ last.row = NoRow
        /\ Len(last.pushes) <= 1
        /\ \A k \in handlers : k.no # last.no
        /\ \A p \in Pushes :
              /\ p.frame = TypingFrame(last.msg)
              /\ p.rcpt = last.msg.toUserId
              /\ p.to = clients[last.msg.toUserId]
              /\ readyState[p.to] = "open"
              /\ (last.msg.toUserId # last.msg.fromUserId => p.to # last.sock)

\* C17 (as claimed): the membership table holds at most one row per
\* (group, user) pair.
C17_OneRowPerMembership ==
    \A g \in GroupIds, u \in UserIds : members[g][u] <= 1

\* C18: no step of removeGroupMember(g, u) with u the owner of g changes a
\* membership row or reaches the delete statement, and the call returns
\* false (the route answers 400), whoever sent the request.
C18_OwnerIsNotRemoved ==
    [][\A c \in calls :
          (/\ c.op = "removeMember"
           /\ c.userId = groups[c.groupId]
           /\ (RemoveMembershipChecked(c) \/ RemoveOwnerChecked(c) \/ MemberDeleted(c))) =>
              /\ members' = members
              /\ \A k \in calls' : k.no = c.no => k.pc # "delete"
              /\ (c.pc = "isGroupOwner" =>
                     lastCall' = AnswerTo(c, StatusBadRequest) /\ c \notin calls')
      ]_vars

\* The only request so far asked to remove the owner, who was and is a
\* member, and was answered 400.
C18_Witness ==
    /\ ncalls = 1
    /\ lastCall.no = 1
    /\ lastCall.op = "removeMember"
    /\ lastCall.userId = groups[lastCall.groupId]
    /\ lastCall.status = StatusBadRequest
    /\ members[lastCall.groupId][lastCall.userId] = 1

\* C19: a remove-member request is answered 200 only if the requester owns
\* the group and the target does not, or the requester is the target; a
\* request by a user who is neither the owner nor the target is answered 403
\* at once; and only a request answered 200 changes a membership row.
C19_RemovalAuthorised ==
    [][(lastCall' # lastCall /\ lastCall'.op = "removeMember") =>
          LET a == lastCall'
              owner == groups[a.groupId]
          IN /\ (a.status = StatusOk =>
                    \/ (a.currentUserId = owner /\ a.userId # owner)
                    \/ a.currentUserId = a.userId)
             /\ ((a.currentUserId # Absent /\ a.currentUserId \notin {owner, a.userId}) =>
                    /\ a.status = StatusForbidden
                    /\ a.no = ncalls'
                    /\ ncalls' = ncalls + 1
                    /\ calls' = calls)
             /\ (a.status # StatusOk => members' = members)
      ]_vars

\* User 3, who neither owns group 1 nor is the target, asked to remove
\* member 2 and was answered 403; user 2 is still a member.
C19_Witness ==
    /\ lastCall.op = "removeMember"
    /\ lastCall.status = StatusForbidden
    /\ lastCall.currentUserId = 3
    /\ lastCall.userId = 2
    /\ groups[lastCall.groupId] = 1
    /\ members[lastCall.groupId][2] = 1
    /\ calls = {}

\* C20: an add-member request (both ids given) whose currentUserId does not
\* own the group is answered 403 at once, without a storage write and
\* without a membership row being created; a request by the owner is
\* answered 200 and at that moment the target has a membership row.
C20_AddIsOwnerOnly ==
    [][(lastCall' # lastCall /\ lastCall'.op = "addMember"
           /\ lastCall'.userId # Absent /\ lastCall'.currentUserId # Absent) =>
          LET a == lastCall'
          IN IF a.currentUserId = groups[a.groupId]
             THEN /\ a.status = StatusOk
                  /\ members'[a.groupId][a.userId] >= 1
             ELSE /\ a.status = StatusForbidden
                  /\ a.no = ncalls'
                  /\ ncalls' = ncalls + 1
                  /\ calls' = calls
                  /\ members' = members
      ]_vars

\* The owner's request to add user 2 was answered 200 and user 2 has a
\* membership row; nothing else is in flight.
C20_Witness ==
    /\ lastCall.op = "addMember"
    /\ lastCall.status = StatusOk
    /\ lastCall.currentUserId = groups[lastCall.groupId]
    /\ lastCall.userId = 2
    /\ lastCall.currentUserId # 2
    /\ members[lastCall.groupId][2] = 1
    /\ addedAt[lastCall.groupId][2] # {}
    /\ calls = {}

\* C21: a transferGroupOwnership(g, current, next) call changes no
\* membership row in any of its steps; it changes the owner column only in
\* its update statement, which it reaches only after its ownership check
\* found current to be the owner of g and its membership check found next to
\* be a member of g; the update sets the owner of g to next and the call
\* returns true (the route answers 200); a failed check returns false (the
\* route answers 403) and ends the call without a change.
C21_TransferOwnership ==
    [][\A c \in calls :
          c.op = "transferOwnership" =>
             /\ (TransferOwnerChecked(c) \/ TransferMemberChecked(c) \/ OwnerUpdated(c)) =>
                   members' = members
             /\ TransferOwnerChecked(c) =>
                   /\ groups' = groups
                   /\ IF isGroupOwner(groups, c.groupId, c.currentUserId)
                      THEN lastCall' = NoCall /\ [c EXCEPT !.pc = "isGroupMember"] \in calls'
                      ELSE /\ lastCall' = AnswerTo(c, StatusForbidden)
                           /\ \A k \in calls' : k.no # c.no
             /\ TransferMemberChecked(c) =>
                   /\ groups' = groups
                   /\ IF isGroupMember(members, c.groupId, c.userId)
                      THEN lastCall' = NoCall /\ [c EXCEPT !.pc = "update"] \in calls'
                      ELSE /\ lastCall' = AnswerTo(c, StatusForbidden)
                           /\ \A k \in calls' : k.no # c.no
             /\ (OwnerUpdated(c) /\ GroupExists(groups, c.groupId) /\ c.userId \in users) =>
                   /\ groups' = [groups EXCEPT ![c.groupId] = c.userId]
                   /\ lastCall' = AnswerTo(c, StatusOk)
      ]_vars

\* The only request so far moved the ownership of the group from its owner
\* to the other member and was answered 200; both are still members.
C21_Witness ==
    /\ ncalls = 1
    /\ lastCall.op = "transferOwnership"
    /\ lastCall.status = StatusOk
    /\ lastCall.userId # lastCall.currentUserId
    /\ groups[lastCall.groupId] = lastCall.userId
    /\ members[lastCall.groupId] = Rows({lastCall.userId, lastCall.currentUserId})

\* C22: when createGroup returns and no request arrived while it ran, the
\* group row names its owner, the owner has exactly one membership row in
\* the group, nobody else has one, and the route answers 201.
C22_CreatedGroupHasOwnerOnly ==
    [][\A c \in calls :
          (/\ c.op = "createGroup"
           /\ c.no = ncalls
           /\ (AddMembershipChecked(c) \/ MemberInserted(c))
           /\ \A k \in calls' : k.no # c.no) =>
              /\ groups'[c.groupId] = c.userId
              /\ members'[c.groupId] = Rows({c.userId})
              /\ lastCall' = AnswerTo(c, StatusCreated)
      ]_vars

\* User 2 created the group, no request came after that one, and it was
\* answered 201: user 2 owns the group and holds its only membership row.
C22_Witness ==
    /\ lastCall.op = "createGroup"
    /\ lastCall.no = ncalls
    /\ lastCall.status = StatusCreated
    /\ lastCall.userId = 2
    /\ groups[lastCall.groupId] = 2
    /\ members[lastCall.groupId] = Rows({2})

\* C23: a deleteGroup(g, u) call whose ownership check finds that u is not
\* the owner of g returns false: the route answers 403, the call ends, and
\* the group row, the membership rows and the messages are as before.
C23_DeleteGroupByNonOwner ==
    [][\A c \in calls :
          (/\ c.op = "deleteGroup"
           /\ ~isGroupOwner(groups, c.groupId, c.currentUserId)
           /\ DeleteGroupOwnerChecked(c)) =>
              /\ groups' = groups
              /\ members' = members
              /\ messages' = messages
              /\ lastCall' = AnswerTo(c, StatusForbidden)
              /\ \A k \in calls' : k.no # c.no
      ]_vars

\* The only request so far was a member's request to delete the group of
\* user 1; it was answered 403 and every row is still there.
C23_Witness ==
    /\ ncalls = 1
    /\ lastCall.op = "deleteGroup"
    /\ lastCall.currentUserId = 2
    /\ lastCall.status = StatusForbidden
    /\ groups[lastCall.groupId] = 1
    /\ members[lastCall.groupId] = Rows({1, 2})
    /\ messages = StoredMessages

\* C24: in the state deleteGroup(g, owner) returns true in, the group row is
\* gone; and whenever the group row is gone, no membership row and no
\* messages row refers to g.
C24_DeletedGroupLeavesNoRow ==
    /\ (lastCall.op = "deleteGroup" /\ lastCall.status = StatusOk) =>
          groups[lastCall.groupId] = Absent
    /\ \A g \in GroupIds :
          groups[g] = Absent =>
             /\ \A u \in UserIds : members[g][u] = 0
             /\ \A i \in DOMAIN messages : messages[i].groupId # g

\* The owner's deleteGroup returned true for a group that had a message: the
\* group row, the message and the membership rows are gone.
C24_Witness ==
    /\ lastCall.op = "deleteGroup"
    /\ lastCall.status = StatusOk
    /\ groups[lastCall.groupId] = Absent
    /\ \E i \in DOMAIN messages : messages[i].type = "deleted"
    /\ \A u \in UserIds : members[lastCall.groupId][u] = 0

\* C25: in the state deleteUser(id) completes without error in, the user row
\* is gone; and whenever a user row is gone, no messages row was sent by or
\* to that user, no group is owned by that user, that user has no membership
\* row, idea or idea vote; and a group row that is gone has no membership or
\* messages row left.
C25_DeletedUserLeavesNoRow ==
    /\ (lastCall.op = "deleteUser" /\ lastCall.status = StatusOk) =>
          lastCall.userId \notin users
    /\ \A id \in Requesters \ users :
          /\ \A i \in DOMAIN messages :
                messages[i].fromUserId # id /\ messages[i].toUserId # id
          /\ \A g \in GroupIds : groups[g] # id
          /\ \A g \in GroupIds : id \in UserIds => members[g][id] = 0
          /\ \A i \in IdeaIds : ideas[i].userId # id
          /\ \A i \in IdeaIds : id \in UserIds => ideaVotes[i][id] = 0
    /\ \A g \in GroupIds :
          groups[g] = Absent =>
             /\ \A u \in UserIds : members[g][u] = 0
             /\ \A i \in DOMAIN messages : messages[i].groupId # g

\* The only request so far deleted user 1, who owned the group and had sent
\* and received messages, and was answered 200: the user row, the group row
\* and every message are gone.
C25_Witness ==
    /\ ncalls = 1
    /\ lastCall.op = "deleteUser"
    /\ lastCall.userId = 1
    /\ lastCall.status = StatusOk
    /\ users = Requesters \ {1}
    /\ groups = [g \in GroupIds |-> Absent]
    /\ \A i \in DOMAIN messages : messages[i].type = "deleted"

\* C26 (as claimed): in every state in which no storage operation is
\* mid-execution, each existing group's owner has a membership row in that
\* group.
C26_OwnerIsMember ==
    calls = {} =>
       \A g \in GroupIds :
          groups[g] # Absent =>
             groups[g] \in UserIds /\ members[g][groups[g]] > 0

\* C27 (as claimed): every group messages row is inserted while its sender
\* is a member of the group: in the state the relay's createMessage call has
\* just inserted a row in, the frame's sender has a membership row.
C27_RowInsertedByMember ==
    last.act = "GroupCreated" =>
       isGroupMember(members, last.msg.groupId, last.msg.fromUserId)

\* C28 (as claimed): deleteUser is all-or-nothing. The ideas table does not
\* change here, so a deleteUser call for a user who has an idea throws (its
\* final delete is rejected, if no earlier one is); no step of such a call
\* deletes a messages, group or membership row.
C28_DeleteUserAllOrNothing ==
    [][\A c \in calls :
          (/\ c.op = "deleteUser"
           /\ \E i \in IdeaIds : ideas[i].userId = c.userId
           /\ \/ UserMessagesDeleted(c)
              \/ OwnedGroupsSelected(c)
              \/ OwnedGroupMessagesDeleted(c)
              \/ OwnedGroupMembersDeleted(c)
              \/ OwnedGroupsDeleted(c)
              \/ UserMembershipsDeleted(c)
              \/ UserDeleted(c)) =>
              /\ messages' = messages
              /\ groups' = groups
              /\ members' = members
      ]_vars

\* C29 (as claimed): whenever no toggleIdeaVote call is in flight, every
\* idea's votes counter equals the number of its idea_votes rows and no
\* (idea, user) pair has more than one row.
C29_CounterMatchesVotes ==
    calls = {} =>
       \A i \in IdeaIds :
          /\ ideas[i].votes = VoteRows(ideaVotes[i], UserIds)
          /\ \A u \in UserIds : ideaVotes[i][u] <= 1

\* C30 (as claimed): once the cleanup of the hook's effect has run, the hook
\* creates no further WebSocket.
C30_NoConnectionAfterCleanup ==
    [][hook.phase = "cleaned" => Len(hook'.sockets) = Len(hook.sockets)]_vars

TypeOK ==
    /\ readyState \in [Sockets -> {"idle", "open", "closed"}]
    /\ userId \in [Sockets -> UserIds \cup {Absent}]
    /\ clients \in [UserIds -> Sockets \cup {NoSocket}]
    /\ nframes \in 0..(MaxFrames + 1)
    /\ \A h \in handlers : h.no \in 1..nframes
    /\ users \subseteq Requesters
    /\ \A i \in IdeaIds, u \in UserIds : ideaVotes[i][u] >= 0
    /\ hook.phase \in {"unmounted", "mounted", "cleaned"}
    /\ hook.wsRef = Len(hook.sockets)
====
